---- MODULE Spec2Model ----
(***************************************************************************)
(* BOS (Break of Structure) multi-timeframe strategy tracker of            *)
(* strategies/bos-strategy.js, with the part of indicators.js it reads,    *)
(* and the trading bot (bot.js, and the single-timeframe bot before it)    *)
(* that drives a strategy against the exchange.                            *)
(*                                                                         *)
(* Prices: candle prices are whole numbers; every price the tracker stores *)
(* is kept in thousandths (Scale), so that the 0.5 / 0.618 / 0.05 factors  *)
(* of the source are exact.  A JavaScript null is None (the empty tuple),  *)
(* a present value v is Some(v).                                           *)
(***************************************************************************)
EXTENDS Integers, Sequences, FiniteSets, TLC

VARIABLES state, result, call, last, bot

vars == <<state, result, call, last, bot>>

----------------------------------------------------------------------------
(* Optional values *)

None == <<>>

Some(v) == <<v>>

IsNull(x) == x = None

Val(x) == x[1]

----------------------------------------------------------------------------
(* Bounds of the model *)

\* the long higher/lower sequences hold the structural lookback + 2 +
\* ExtraLen candles
ExtraLen == 0

\* length of the too-short, non-empty sequences
ShortLen == 4

----------------------------------------------------------------------------
(* Program constants *)

Scale == 1000

lookback4H == 20

lookback5M == 10

swingLookback == 5

fib50Num == 500

fib618Num == 618

slBufferNum == 50

riskReward == 2

defaultEma200 == 200

----------------------------------------------------------------------------
(* Arithmetic helpers *)

Min2(a, b) == IF a <= b THEN a ELSE b

Max2(a, b) == IF a >= b THEN a ELSE b

MinOf(S) == CHOOSE x \in S : \A y \in S : x <= y

MaxOf(S) == CHOOSE x \in S : \A y \in S : x >= y

RECURSIVE GCD(_, _)
GCD(a, b) == IF b = 0 THEN a ELSE GCD(b, a % b)

\* a rational number as a reduced pair <<numerator, denominator>>
Rat(n, d) == LET g == GCD(n, d) IN <<n \div g, d \div g>>

\* Array.prototype.slice(from, to) on 0-based half-open indices, with the
\* negative-index clamping of JavaScript; the result is 1-based
jsSlice(s, from, to) ==
  LET n == Len(s)
      f == IF from < 0 THEN Max2(n + from, 0) ELSE Min2(from, n)
      t == IF to < 0 THEN Max2(n + to, 0) ELSE Min2(to, n)
  IN IF f >= t THEN <<>> ELSE SubSeq(s, f + 1, t)

----------------------------------------------------------------------------
(* Candle inputs.  A candle is [high, low, close, time]; open and volume   *)
(* are never read by the tracker.                                           *)

Candle(h, l, c) == [high |-> h, low |-> l, close |-> c]

\* flat base candle
cBase == Candle(8, 6, 7)

\* closes above every base high
cUp == Candle(12, 7, 9)

\* closes inside the 50%-61.8% retracement of the impulse 6 -> 12
cZoneUp == Candle(9, 8, 9)

\* closes below every base low
cDown == Candle(7, 2, 5)

\* closes inside the 50%-61.8% retracement of the impulse 8 -> 2
cZoneDown == Candle(6, 5, 5)

Shapes4H == {cBase, cUp, cZoneUp, cDown, cZoneDown}

\* a wick above every base high that closes back at the base, and a candle
\* that closes above the wick
cWickUp == Candle(10, 6, 7)

cBreakUp == Candle(12, 7, 11)

\* a wick below every base low that closes back at the base, and a candle
\* that closes below the wick
cWickDown == Candle(8, 4, 7)

cBreakDown == Candle(7, 2, 3)

\* a break right after a wick of the previous candle
WickTails4H == {<<cWickUp, cBreakUp>>, <<cWickDown, cBreakDown>>}

\* a sequence of n candles, oldest first: the base candle repeated, ending
\* with the candles of tail; candle i opens at time i
Series(n, tail) ==
  LET k == Len(tail)
  IN [i \in 1..n |->
        LET c == IF i > n - k THEN tail[i - (n - k)] ELSE cBase
        IN [high |-> c.high, low |-> c.low, close |-> c.close, time |-> i]]

LongLen4H == lookback4H + 2 + ExtraLen

LongLen5M == lookback5M + 2 + ExtraLen

Lens4H == {0, ShortLen, LongLen4H}

Lens5M == {0, ShortLen, LongLen5M}

\* the candle counts the bot asks of a tick before it calls analyze():
\* Math.max(ema200 + emaMargin, minCandlesFloor4H) higher candles and
\* minCandles5M lower ones
emaMargin == 10

minCandlesFloor4H == 60

minCandles5M == 30

\* the previous and the current candle of a sequence (an empty sequence
\* has none).  A short higher sequence is read for its trend and price
\* only; the candles of a short lower sequence are never read.
Tails4H(n) ==
  IF n = 0 THEN {<<>>}
  ELSE IF n < LongLen4H
    THEN {<<cBase, cBase>>, <<cUp, cZoneUp>>, <<cDown, cZoneDown>>}
  ELSE IF n >= minCandlesFloor4H
    THEN {<<cBase, cBase>>, <<cBase, cUp>>, <<cBase, cDown>>}
  ELSE {cBase, cUp, cDown} \X Shapes4H

\* lower sequences with no break, a bullish break, a bearish break, and
\* a break of either side after an opposite candle
Tails5M(n) ==
  IF n = 0 THEN {<<>>}
  ELSE IF n < LongLen5M THEN {<<cBase, cBase>>}
  ELSE IF n >= minCandles5M
    THEN {<<cBase, cBase>>, <<cBase, cUp>>, <<cBase, cDown>>}
  ELSE {<<cBase, cBase>>, <<cBase, cUp>>, <<cBase, cDown>>,
        <<cDown, cUp>>, <<cUp, cDown>>}

\* config.indicators.ema200 values tried (0 stands for an unset period)
EmaPeriods == {0, 3}

\* the candle sequences passed to analyze(), as [n, tail] descriptions of
\* Series: those of a direct caller, and the full-length ones the exchange
\* hands the bot
Keys4H ==
  UNION {{[n |-> n, tail |-> t] : t \in Tails4H(n)} :
           n \in Lens4H \cup {minCandlesFloor4H}}
    \cup {[n |-> LongLen4H, tail |-> t] : t \in WickTails4H}

Keys5M ==
  UNION {{[n |-> n, tail |-> t] : t \in Tails5M(n)} :
           n \in Lens5M \cup {minCandles5M}}

\* an enumeration of a finite set
RECURSIVE SetToSeq(_)
SetToSeq(S) ==
  IF S = {} THEN <<>>
  ELSE LET x == CHOOSE y \in S : TRUE IN <<x>> \o SetToSeq(S \ {x})

KeySeq4H == SetToSeq(Keys4H)

KeySeq5M == SetToSeq(Keys5M)

\* The candle arrays, numbered.  An array passed to analyze() is named by
\* its number; what the code computes from the array alone is tabulated
\* once per array below (Indicators4H, BOS4H, BOS5M).
Candles4H ==
  [i \in 1..Len(KeySeq4H) |->
     Series(KeySeq4H[i].n, KeySeq4H[i].tail)]

Candles5M ==
  [i \in 1..Len(KeySeq5M) |->
     Series(KeySeq5M[i].n, KeySeq5M[i].tail)]

\* an input of analyze(): the number of a higher and of a lower array,
\* and config.indicators.ema200
Inputs ==
  {[k4 |-> k4, k5 |-> k5, cfg |-> cfg] :
     k4 \in {i \in 1..Len(KeySeq4H) :
               KeySeq4H[i].n \in Lens4H /\ KeySeq4H[i].tail \notin WickTails4H},
     k5 \in {i \in 1..Len(KeySeq5M) : KeySeq5M[i].n \in Lens5M},
     cfg \in EmaPeriods}

----------------------------------------------------------------------------
(* Indicator engine: the two fields of computeAll the tracker reads *)

\* the element of a one-element set
The(S) == CHOOSE x \in S : TRUE

\* one step of the exponential smoothing, multiplier 2 / (period + 1), on
\* the EMA e (a reduced rational) and the next price
emaStep(e, price, period) ==
  Rat(2 * price * e[2] + (period - 1) * e[1], (period + 1) * e[2])

\* the recursion over the prices lo..hi, by halves
RECURSIVE emaRange(_, _, _, _, _)
emaRange(cl, lo, hi, period, acc) ==
  IF lo > hi THEN acc
  ELSE IF lo = hi THEN emaStep(acc, cl[lo], period)
  ELSE The({emaRange(cl, (lo + hi) \div 2 + 1, hi, period, e) :
              e \in {emaRange(cl, lo, (lo + hi) \div 2, period, acc)}})

\* exponential smoothing of the closes cl[i..Len(cl)] onto the value acc
emaFold(cl, i, period, acc) == emaRange(cl, i, Len(cl), period, acc)

\* Indicators.calculateEMA: null below period values, else the last EMA
calculateEMA(values, period) ==
  IF Len(values) < period THEN None
  ELSE Some(emaFold(values, 2, period, Rat(values[1], 1)))

\* config.indicators.ema200 || 200
emaPeriodOf(cfg) == IF cfg = 0 THEN defaultEma200 ELSE cfg

\* Indicators.computeAll; reading the last candle of an empty array throws
computeAllThrows(candles) == Len(candles) = 0

computeAll(candles, cfg) ==
  [ema200 |-> calculateEMA([i \in 1..Len(candles) |-> candles[i].close],
                           emaPeriodOf(cfg)),
   currentPrice |-> candles[Len(candles)].close]

\* BaseStrategy.computeIndicators
computeIndicators(candles, cfg) == computeAll(candles, cfg)

Indicators4H ==
  [i \in 1..Len(KeySeq4H) |-> [cfg \in EmaPeriods |->
     IF computeAllThrows(Candles4H[i]) THEN None
     ELSE Some(computeIndicators(Candles4H[i], cfg))]]

\* JavaScript truthiness of an EMA value: null and 0 are falsy
emaFalsy(e) == IsNull(e) \/ Val(e)[1] = 0

\* close > ema and close < ema on the rational ema
closeAbove(close, e) == close * Val(e)[2] > Val(e)[1]

closeBelow(close, e) == close * Val(e)[2] < Val(e)[1]

----------------------------------------------------------------------------
(* Tracker state *)

\* BOSStrategy constructor
constructorState ==
  [trend4H |-> "NONE",
   bos4H |-> None,
   retracementZone4H |-> None,
   inRetracementZone |-> FALSE,
   bos5M |-> None,
   entryZone5M |-> None,
   entryProposed |-> FALSE,
   entryPrice |-> None,
   stopLoss |-> None,
   takeProfit |-> None]

\* resetState that forgets one field (inRetracementZone)
resetStateKeepsInZone(st) ==
  [trend4H |-> "NONE",
   bos4H |-> None,
   retracementZone4H |-> None,
   inRetracementZone |-> st.inRetracementZone,
   bos5M |-> None,
   entryZone5M |-> None,
   entryProposed |-> FALSE,
   entryPrice |-> None,
   stopLoss |-> None,
   takeProfit |-> None]

\* BOSStrategy.resetState, called on a tracker in state st
resetState(st) ==
  [trend4H |-> "NONE",
   bos4H |-> None,
   retracementZone4H |-> None,
   inRetracementZone |-> FALSE,
   bos5M |-> None,
   entryZone5M |-> None,
   entryProposed |-> FALSE,
   entryPrice |-> None,
   stopLoss |-> None,
   takeProfit |-> None]

\* BOSStrategy.findLastSwingLow
findLastSwingLow(candles, lookback) ==
  LET n == Len(candles)
      allLows == {candles[k].low : k \in 1..n}
      swings == {j \in (lookback + 1)..(n - lookback) :
                   /\ \A k \in (j - lookback)..(j - 1) :
                        candles[k].low >= candles[j].low
                   /\ \A k \in (j + 1)..Min2(j + lookback, n) :
                        candles[k].low >= candles[j].low}
  IN IF n < lookback THEN MinOf(allLows)
     ELSE IF swings = {} THEN MinOf(allLows)
     ELSE MinOf({candles[j].low : j \in swings})

\* BOSStrategy.findLastSwingHigh
findLastSwingHigh(candles, lookback) ==
  LET n == Len(candles)
      allHighs == {candles[k].high : k \in 1..n}
      swings == {j \in (lookback + 1)..(n - lookback) :
                   /\ \A k \in (j - lookback)..(j - 1) :
                        candles[k].high <= candles[j].high
                   /\ \A k \in (j + 1)..Min2(j + lookback, n) :
                        candles[k].high <= candles[j].high}
  IN IF n < lookback THEN MaxOf(allHighs)
     ELSE IF swings = {} THEN MaxOf(allHighs)
     ELSE MaxOf({candles[j].high : j \in swings})

----------------------------------------------------------------------------
(* Break detection on one candle array (of at least lookback + 2 candles) *)

\* the BULLISH branch of detectBOS4H / detectBOS5M: the break record the
\* branch stores, or None when its condition fails
bullishBOS(candles, lookback) ==
  LET currentCandle == candles[Len(candles)]
      previousCandle == candles[Len(candles) - 1]
      structureCandles == jsSlice(candles, 0 - lookback - 2, -1)
      swingHigh ==
        MaxOf({structureCandles[k].high : k \in 1..Len(structureCandles)})
  IN IF currentCandle.close > swingHigh /\ previousCandle.close <= swingHigh
       THEN LET swingLow == findLastSwingLow(structureCandles, swingLookback)
            IN Some([detected |-> TRUE,
                     type |-> "BULLISH",
                     breakLevel |-> swingHigh * Scale,
                     impulse |->
                       [start |-> swingLow * Scale,
                        end |-> currentCandle.high * Scale,
                        size |-> (currentCandle.high - swingLow) * Scale],
                     timestamp |-> currentCandle.time])
       ELSE None

\* the BEARISH branch of detectBOS4H / detectBOS5M
bearishBOS(candles, lookback) ==
  LET currentCandle == candles[Len(candles)]
      previousCandle == candles[Len(candles) - 1]
      structureCandles == jsSlice(candles, 0 - lookback - 2, -1)
      swingLow ==
        MinOf({structureCandles[k].low : k \in 1..Len(structureCandles)})
  IN IF currentCandle.close < swingLow /\ previousCandle.close >= swingLow
       THEN LET swingHigh == findLastSwingHigh(structureCandles, swingLookback)
            IN Some([detected |-> TRUE,
                     type |-> "BEARISH",
                     breakLevel |-> swingLow * Scale,
                     impulse |->
                       [start |-> swingHigh * Scale,
                        end |-> currentCandle.low * Scale,
                        size |-> (swingHigh - currentCandle.low) * Scale],
                     timestamp |-> currentCandle.time])
       ELSE None

\* both branches, tabulated per array
breaksOf(candles, lookback) ==
  IF Len(candles) < lookback + 2 THEN [BULLISH |-> None, BEARISH |-> None]
  ELSE [BULLISH |-> bullishBOS(candles, lookback),
        BEARISH |-> bearishBOS(candles, lookback)]

BOS4H == [i \in 1..Len(KeySeq4H) |-> breaksOf(Candles4H[i], lookback4H)]

BOS5M == [i \in 1..Len(KeySeq5M) |-> breaksOf(Candles5M[i], lookback5M)]

----------------------------------------------------------------------------
(* Pipeline steps of analyze(); each maps a tracker state to the next.     *)
(* k4 and k5 are the numbers of the higher and the lower candle array.     *)

\* BOSStrategy.analyzeTrend4H
analyzeTrend4H(st, k4, indicators) ==
  IF emaFalsy(indicators.ema200) THEN [st EXCEPT !.trend4H = "NONE"]
  ELSE LET candles == Candles4H[k4]
           currentClose == candles[Len(candles)].close
       IN IF closeAbove(currentClose, indicators.ema200)
            THEN [st EXCEPT !.trend4H = "BULLISH"]
          ELSE IF closeBelow(currentClose, indicators.ema200)
            THEN [st EXCEPT !.trend4H = "BEARISH"]
          ELSE [st EXCEPT !.trend4H = "NONE"]

\* BOSStrategy.detectBOS4H
detectBOS4H(st, k4) ==
  IF st.trend4H = "NONE" THEN [st EXCEPT !.bos4H = None]
  ELSE IF Len(Candles4H[k4]) < lookback4H + 2 THEN [st EXCEPT !.bos4H = None]
  ELSE LET found == BOS4H[k4][st.trend4H]
       IN IF IsNull(found) THEN st ELSE [st EXCEPT !.bos4H = found]

\* fibZone that measures a BEARISH retracement below the impulse end, as
\* the BULLISH branch does
fibZoneOneSided(type, impulse) ==
  LET d50 == (impulse.size * fib50Num) \div Scale
      d618 == (impulse.size * fib618Num) \div Scale
  IN IF type = "BULLISH"
       THEN [high |-> impulse.end - d50, low |-> impulse.end - d618]
       ELSE [low |-> impulse.end - d50, high |-> impulse.end - d618]

\* the 50% and 61.8% retracement levels of an impulse, as [low, high]:
\* below the impulse end for BULLISH, above it for BEARISH
fibZone(type, impulse) ==
  LET d50 == (impulse.size * fib50Num) \div Scale
      d618 == (impulse.size * fib618Num) \div Scale
  IN IF type = "BULLISH"
       THEN [high |-> impulse.end - d50, low |-> impulse.end - d618]
       ELSE [low |-> impulse.end + d50, high |-> impulse.end + d618]

\* BOSStrategy.calculateRetracementZone4H
calculateRetracementZone4H(st) ==
  IF IsNull(st.bos4H) THEN st
  ELSE LET bos == Val(st.bos4H)
           z == fibZone(bos.type, bos.impulse)
       IN [st EXCEPT !.retracementZone4H =
             Some([low |-> z.low, high |-> z.high, type |-> bos.type])]

\* checkRetracementZone that keeps a true flag once it is set
checkRetracementZoneSticky(st, currentPrice) ==
  IF IsNull(st.retracementZone4H) THEN [st EXCEPT !.inRetracementZone = FALSE]
  ELSE LET zone == Val(st.retracementZone4H)
       IN [st EXCEPT !.inRetracementZone =
             \/ st.inRetracementZone
             \/ /\ currentPrice * Scale >= zone.low
                /\ currentPrice * Scale <= zone.high]

\* BOSStrategy.checkRetracementZone; currentPrice is a candle close
checkRetracementZone(st, currentPrice) ==
  IF IsNull(st.retracementZone4H) THEN [st EXCEPT !.inRetracementZone = FALSE]
  ELSE LET zone == Val(st.retracementZone4H)
       IN [st EXCEPT !.inRetracementZone =
             /\ currentPrice * Scale >= zone.low
             /\ currentPrice * Scale <= zone.high]

\* BOSStrategy.detectBOS5M
detectBOS5M(st, k5) ==
  IF Len(Candles5M[k5]) < lookback5M + 2 THEN [st EXCEPT !.bos5M = None]
  ELSE IF st.trend4H = "NONE" THEN st
  ELSE LET found == BOS5M[k5][st.trend4H]
       IN IF IsNull(found) THEN st ELSE [st EXCEPT !.bos5M = found]

\* BOSStrategy.calculateEntryZone5M
calculateEntryZone5M(st) ==
  IF IsNull(st.bos5M) THEN st
  ELSE
    LET bos == Val(st.bos5M)
        impulse == bos.impulse
        z == fibZone(bos.type, impulse)
        buffer == (impulse.size * slBufferNum) \div Scale
    IN IF bos.type = "BULLISH" THEN
         LET entry == z.high
             sl == z.low - buffer
             riskDistance == entry - sl
         IN [st EXCEPT !.entryZone5M = Some(z),
                       !.entryPrice = Some(entry),
                       !.stopLoss = Some(sl),
                       !.takeProfit = Some(entry + riskDistance * riskReward),
                       !.entryProposed = TRUE]
       ELSE
         LET entry == z.low
             sl == z.high + buffer
             riskDistance == sl - entry
         IN [st EXCEPT !.entryZone5M = Some(z),
                       !.entryPrice = Some(entry),
                       !.stopLoss = Some(sl),
                       !.takeProfit = Some(entry - riskDistance * riskReward),
                       !.entryProposed = TRUE]

----------------------------------------------------------------------------
(* Signal assembly *)

met(check) == [ok |-> TRUE, check |-> check]

unmet(check) == [ok |-> FALSE, check |-> check]

\* BaseStrategy.createSignalResponse (the attached indicators are left out)
createSignalResponse(signal, type, reasons) ==
  [signal |-> signal, type |-> type, reasons |-> reasons]

\* the checklist without its zone-occupancy check
entryChecklistNoOccupancy(st, type) ==
  IF IsNull(st.bos4H) \/ ~Val(st.bos4H).detected THEN
    createSignalResponse(FALSE, type, <<met("trend"), unmet("bos4H")>>)
  ELSE IF IsNull(st.retracementZone4H) THEN
    createSignalResponse(FALSE, type,
      <<met("trend"), met("bos4H"), unmet("zone")>>)
  ELSE IF IsNull(st.bos5M) \/ ~Val(st.bos5M).detected THEN
    createSignalResponse(FALSE, type,
      <<met("trend"), met("bos4H"), met("zone"), met("inZone"),
        unmet("bos5M")>>)
  ELSE IF ~st.entryProposed THEN
    createSignalResponse(FALSE, type,
      <<met("trend"), met("bos4H"), met("zone"), met("inZone"),
        met("bos5M"), unmet("entry")>>)
  ELSE
    createSignalResponse(TRUE, type,
      <<met("trend"), met("bos4H"), met("zone"), met("inZone"),
        met("bos5M"), met("entry")>>)

\* checks two to six, which checkLongEntry and checkShortEntry share word
\* for word: each unmet condition returns at once with the reasons so far
entryChecklist(st, type) ==
  IF IsNull(st.bos4H) \/ ~Val(st.bos4H).detected THEN
    createSignalResponse(FALSE, type, <<met("trend"), unmet("bos4H")>>)
  ELSE IF IsNull(st.retracementZone4H) THEN
    createSignalResponse(FALSE, type,
      <<met("trend"), met("bos4H"), unmet("zone")>>)
  ELSE IF ~st.inRetracementZone THEN
    createSignalResponse(FALSE, type,
      <<met("trend"), met("bos4H"), met("zone"), unmet("inZone")>>)
  ELSE IF IsNull(st.bos5M) \/ ~Val(st.bos5M).detected THEN
    createSignalResponse(FALSE, type,
      <<met("trend"), met("bos4H"), met("zone"), met("inZone"),
        unmet("bos5M")>>)
  ELSE IF ~st.entryProposed THEN
    createSignalResponse(FALSE, type,
      <<met("trend"), met("bos4H"), met("zone"), met("inZone"),
        met("bos5M"), unmet("entry")>>)
  ELSE
    createSignalResponse(TRUE, type,
      <<met("trend"), met("bos4H"), met("zone"), met("inZone"),
        met("bos5M"), met("entry")>>)

\* BOSStrategy.checkLongEntry
checkLongEntry(st) ==
  IF st.trend4H # "BULLISH"
    THEN createSignalResponse(FALSE, "LONG", <<unmet("trend")>>)
  ELSE entryChecklist(st, "LONG")

\* checkShortEntry without its trend check
checkShortEntryAnyTrend(st) == entryChecklist(st, "SHORT")

\* BOSStrategy.checkShortEntry
checkShortEntry(st) ==
  IF st.trend4H # "BEARISH"
    THEN createSignalResponse(FALSE, "SHORT", <<unmet("trend")>>)
  ELSE entryChecklist(st, "SHORT")

----------------------------------------------------------------------------
(* analyze() *)

\* step 3 computing the zone only while none is stored
zoneStepOnce(st) ==
  IF ~IsNull(st.bos4H) /\ Val(st.bos4H).detected /\ IsNull(st.retracementZone4H)
    THEN calculateRetracementZone4H(st)
  ELSE st

\* step 3 of analyze: the zone is recomputed whenever a detected break is
\* held
zoneStep(st) ==
  IF ~IsNull(st.bos4H) /\ Val(st.bos4H).detected
    THEN calculateRetracementZone4H(st)
  ELSE st

\* step 5 without its zone condition
confirmStepAlways(st, k5) == detectBOS5M(st, k5)

\* step 5 of analyze: the lower break is looked for only inside the zone
confirmStep(st, k5) ==
  IF st.inRetracementZone THEN detectBOS5M(st, k5) ELSE st

\* step 6 without its "no entry proposed yet" condition
entryStepReproposes(st) ==
  IF ~IsNull(st.bos5M) /\ Val(st.bos5M).detected
    THEN calculateEntryZone5M(st)
  ELSE st

\* step 6 of analyze: the entry is computed once per cycle
entryStep(st) ==
  IF ~IsNull(st.bos5M) /\ Val(st.bos5M).detected /\ ~st.entryProposed
    THEN calculateEntryZone5M(st)
  ELSE st

\* analyze that checks the zone occupancy (step 4) before it recomputes
\* the zone (step 3)
analyzeStateChecksZoneFirst(st, k4, k5, cfg) ==
  entryStep(
    confirmStep(
      zoneStep(
        checkRetracementZone(
          detectBOS4H(
            analyzeTrend4H(st, k4, Val(Indicators4H[k4][cfg])), k4),
          Val(Indicators4H[k4][cfg]).currentPrice)),
      k5))

\* steps 1 to 6 of BOSStrategy.analyze on the tracker state, in the order
\* of the code
analyzeState(st, k4, k5, cfg) ==
  entryStep(
    confirmStep(
      checkRetracementZone(
        zoneStep(
          detectBOS4H(
            analyzeTrend4H(st, k4, Val(Indicators4H[k4][cfg])), k4)),
        Val(Indicators4H[k4][cfg]).currentPrice),
      k5))

\* the object analyze() returns from the state s its steps left
returned(s) ==
  [threw |-> FALSE,
   state |-> s,
   longSignal |-> checkLongEntry(s),
   shortSignal |-> checkShortEntry(s)]

\* BOSStrategy.analyze: the indicators of both arrays are computed first and
\* throw on an empty array, before any state is touched
analyze(st, k4, k5, cfg) ==
  IF computeAllThrows(Candles4H[k4]) \/ computeAllThrows(Candles5M[k5])
    THEN [threw |-> TRUE, state |-> st]
  ELSE returned(analyzeState(st, k4, k5, cfg))

----------------------------------------------------------------------------
(* State machine: a caller that calls analyze() and resetState() *)

NoSignal == [signal |-> FALSE, type |-> "NONE", reasons |-> <<>>]

\* no analyze() call has returned yet
NoResult == [threw |-> FALSE, longSignal |-> NoSignal, shortSignal |-> NoSignal]

\* analyze() threw and returned nothing
Thrown == [threw |-> TRUE, longSignal |-> NoSignal, shortSignal |-> NoSignal]

NoInput == [none |-> TRUE]

short4H(in) == Len(Candles4H[in.k4]) < lookback4H + 2

short5M(in) == Len(Candles5M[in.k5]) < lookback5M + 2

\* no bot is running: the tracker is driven by a direct caller
NoBot == [none |-> TRUE]

Init ==
  /\ state = constructorState
  /\ result = NoResult
  /\ call = "new"
  /\ last = NoInput
  /\ bot = NoBot

\* the caller's view of what analyze() did: r.state is the tracker's state,
\* and the call returned the two signals or threw
Outcome(r) ==
  /\ state' = r.state
  /\ result' = IF r.threw THEN Thrown
               ELSE [threw |-> FALSE, longSignal |-> r.longSignal,
                     shortSignal |-> r.shortSignal]

\* what one analyze() call on the input in leaves behind: the mutated
\* state and the returned signals, or the exception
AnalyzeCall(in) == Outcome(analyze(state, in.k4, in.k5, in.cfg))

\* one analyze() call of the caller
Analyze ==
  \E in \in Inputs :
    /\ AnalyzeCall(in)
    /\ call' = "analyze"
    /\ last' = NoInput
    /\ UNCHANGED bot

\* one resetState() call of the caller
Reset ==
  /\ state' = resetState(state)
  /\ call' = "reset"
  /\ last' = NoInput
  /\ UNCHANGED <<result, bot>>

Next == Analyze \/ Reset

Spec == Init /\ [][Next]_vars

\* The same caller, keeping the arguments of its latest analyze() call in
\* last and then repeating the call with the very same arguments.
AnalyzeRec ==
  /\ last = NoInput
  /\ \E in \in Inputs :
       /\ AnalyzeCall(in)
       /\ call' = "analyze"
       /\ last' = in
       /\ UNCHANGED bot

AnalyzeAgain ==
  /\ last # NoInput
  /\ AnalyzeCall(last)
  /\ call' = "again"
  /\ last' = NoInput
  /\ UNCHANGED bot

NextRec == AnalyzeRec \/ AnalyzeAgain \/ Reset

SpecRec == Init /\ [][NextRec]_vars

----------------------------------------------------------------------------
(* Properties *)

\* the step is an analyze() call (a first call or the repeated one)
AnalyzeStep == call' \in {"analyze", "again"}

\* the arguments of the analyze() call of this step (SpecRec only)
StepInput == IF call' = "again" THEN last ELSE last'

\* the state is the one an analyze() call just left behind
AfterAnalyze == call \in {"analyze", "again"} /\ ~result.threw

Detected(b) == ~IsNull(b) /\ Val(b).detected

\* the entry price calculateEntryZone5M derives from a break
entryOf(b) ==
  LET z == fibZone(Val(b).type, Val(b).impulse)
  IN IF Val(b).type = "BULLISH" THEN z.high ELSE z.low

\* C1: once entryProposed is true, no analyze() call changes entryPrice,
\* stopLoss, takeProfit or entryProposed; only resetState() does.
C1_LockIn ==
  [][(AnalyzeStep /\ state.entryProposed) =>
       /\ state'.entryProposed
       /\ state'.entryPrice = state.entryPrice
       /\ state'.stopLoss = state.stopLoss
       /\ state'.takeProfit = state.takeProfit]_vars

\* a later analyze() call captured another lower break, and the proposal
\* is still the one derived from the earlier break
C1_Witness ==
  /\ AfterAnalyze
  /\ state.entryProposed
  /\ Detected(state.bos5M)
  /\ state.entryPrice # Some(entryOf(state.bos5M))

\* C2: after every analyze() call, retracementZone is non-null only if
\* higherBreak is non-null with detected = true.
C2_ZoneOnlyWithBreak ==
  AfterAnalyze =>
    (~IsNull(state.retracementZone4H) => Detected(state.bos4H))

\* C3: after every analyze() call, higherBreak is non-null only if trend is
\* non-null, and the held break's type equals the current trend.
C3_BreakAgreesWithTrend ==
  AfterAnalyze =>
    (~IsNull(state.bos4H) =>
       /\ state.trend4H # "NONE"
       /\ Val(state.bos4H).type = state.trend4H)

\* C4: after every analyze() call, entryProposed implies entryPrice,
\* stopLoss and takeProfit are non-null and lowerBreak is detected.
C4_ProposalComplete ==
  AfterAnalyze =>
    (state.entryProposed =>
       /\ ~IsNull(state.entryPrice)
       /\ ~IsNull(state.stopLoss)
       /\ ~IsNull(state.takeProfit)
       /\ Detected(state.bos5M))

\* C5: once lowerBreak is non-null, no analyze() call re-evaluates or
\* replaces it; only resetState() does.
C5_CapturedOnce ==
  [][(AnalyzeStep /\ ~IsNull(state.bos5M)) =>
       state'.bos5M = state.bos5M]_vars


\* a field that was set before the step is not back at null after it
Kept(before, after) == ~IsNull(before) => ~IsNull(after)

\* C6: no analyze() call changes higherBreak, retracementZone,
\* lowerBreak, entryProposed or the entry/stop/target prices from a set
\* value back to the initial null/false value.
C6_NeverSelfResets ==
  [][AnalyzeStep =>
       /\ Kept(state.bos4H, state'.bos4H)
       /\ Kept(state.retracementZone4H, state'.retracementZone4H)
       /\ Kept(state.bos5M, state'.bos5M)
       /\ (state.entryProposed => state'.entryProposed)
       /\ Kept(state.entryPrice, state'.entryPrice)
       /\ Kept(state.stopLoss, state'.stopLoss)
       /\ Kept(state.takeProfit, state'.takeProfit)]_vars

\* C7: analyze() called again with the same arguments, with no resetState()
\* in between, returns the same signals and leaves the same state.
C7_Idempotent ==
  [][call' = "again" => (state' = state /\ result' = result)]_vars

\* the repeated call returned a true signal
C7_Witness ==
  /\ call = "again"
  /\ ~result.threw
  /\ (result.longSignal.signal \/ result.shortSignal.signal)
  /\ state.entryProposed

\* C8: resetState() leaves the state of a freshly constructed tracker, so
\* the analyze() call right after it returns what it returns on a fresh
\* tracker.
C8_ResetIsFresh ==
  [][/\ call' = "reset" => state' = constructorState
     /\ (call = "reset" /\ call' = "analyze") =>
          LET r == analyze(constructorState, last'.k4, last'.k5, last'.cfg)
          IN /\ state' = r.state
             /\ result'.threw = r.threw
             /\ ~r.threw => /\ result'.longSignal = r.longSignal
                            /\ result'.shortSignal = r.shortSignal]_vars

\* resetState() was called on a tracker whose latest analyze() had returned
\* a true signal
C8_Witness ==
  /\ call = "reset"
  /\ result.longSignal.signal \/ result.shortSignal.signal
  /\ state = constructorState

\* every check of the list passes in state st, for the wanted trend
AllChecksPass(st, wantedTrend) ==
  /\ st.trend4H = wantedTrend
  /\ Detected(st.bos4H)
  /\ ~IsNull(st.retracementZone4H)
  /\ st.inRetracementZone
  /\ Detected(st.bos5M)
  /\ st.entryProposed

\* C9: the long (short) signal analyze() returns is true exactly when, in
\* the state after the call, trend is BULLISH (BEARISH) and higherBreak is
\* detected, retracementZone is non-null, inRetracementZone holds,
\* lowerBreak is detected and entryProposed holds.
C9_SignalIffAllChecks ==
  AfterAnalyze =>
    /\ result.longSignal.signal <=> AllChecksPass(state, "BULLISH")
    /\ result.shortSignal.signal <=> AllChecksPass(state, "BEARISH")

\* a call whose signal is false although everything but the zone occupancy
\* holds
C9_Witness ==
  /\ AfterAnalyze
  /\ ~result.longSignal.signal
  /\ state.trend4H = "BULLISH"
  /\ Detected(state.bos4H)
  /\ ~state.inRetracementZone
  /\ Detected(state.bos5M)
  /\ state.entryProposed


\* the pipeline steps in the order the checklists test them
Checklist == <<"trend", "bos4H", "zone", "inZone", "bos5M", "entry">>

\* whether the named step holds in state st, for the wanted trend
StepHolds(st, wantedTrend, check) ==
  CASE check = "trend"  -> st.trend4H = wantedTrend
    [] check = "bos4H"  -> Detected(st.bos4H)
    [] check = "zone"   -> ~IsNull(st.retracementZone4H)
    [] check = "inZone" -> st.inRetracementZone
    [] check = "bos5M"  -> Detected(st.bos5M)
    [] check = "entry"  -> st.entryProposed

\* the reasons are not empty and their first unmet item names the first
\* step of the pipeline that does not hold in state st
FirstUnmetIsFirstFailing(signal, st, wantedTrend) ==
  /\ signal.reasons # <<>>
  /\ \E i \in 1..Len(signal.reasons) :
       /\ ~signal.reasons[i].ok
       /\ \A j \in 1..(i - 1) : signal.reasons[j].ok
       /\ \E n \in 1..Len(Checklist) :
            /\ Checklist[n] = signal.reasons[i].check
            /\ ~StepHolds(st, wantedTrend, Checklist[n])
            /\ \A m \in 1..(n - 1) : StepHolds(st, wantedTrend, Checklist[m])

C11_LowerBreakOnlyInZone ==
  [][AnalyzeStep =>
       /\ (~state'.inRetracementZone => state'.bos5M = state.bos5M)
       /\ ((IsNull(state.bos5M) /\ ~IsNull(state'.bos5M)) =>
             state'.inRetracementZone)]_vars

\* an analyze() call outside the zone has left a captured lowerBreak alone
C11_Witness ==
  /\ AfterAnalyze
  /\ ~state.inRetracementZone
  /\ Detected(state.bos5M)

\* the close of the latest higher-timeframe candle of the input in
currentPrice4H(in) == Candles4H[in.k4][Len(Candles4H[in.k4])].close

\* C12: after each analyze() call, inRetracementZone equals (retracementZone
\* is non-null and zone.low <= current higher-timeframe price <= zone.high),
\* whatever its previous value; it is false whenever retracementZone is null.
C12_ZoneFlagRecomputed ==
  [][(AnalyzeStep /\ ~result'.threw) =>
       state'.inRetracementZone =
         /\ ~IsNull(state'.retracementZone4H)
         /\ Val(state'.retracementZone4H).low
              <= currentPrice4H(StepInput) * Scale
         /\ currentPrice4H(StepInput) * Scale
              <= Val(state'.retracementZone4H).high]_vars

\* the price has left the zone of a tracker that had been in it (it proposed
\* an entry there): the flag is false again
C12_Witness ==
  /\ AfterAnalyze
  /\ ~IsNull(state.retracementZone4H)
  /\ state.entryProposed
  /\ ~state.inRetracementZone


----------------------------------------------------------------------------
(* Trading bot: runLoop and tick of bot.js (the BOS bot) and of the        *)
(* single-timeframe bot before it, with RiskManager's daily counter and    *)
(* the exchange account they talk to.  A step runs from one await of the   *)
(* source to the next.                                                     *)

\* config.risk.maxTradesPerDay
maxTradesPerDay == 3

\* enterPosition: the smallest available margin the bot trades with
minBalance == 10

Sides == {"LONG", "SHORT"}

\* the conditions the static Strategy counts (five per side)
conditionCount == 5

\* Strategy.checkLongEntry / checkShortEntry: how many of the conditions
\* make a signal.  The first Strategy class of strategy.js asks for three,
\* the second one for all of them (failures.length === 0).
MinReasons == {3, conditionCount}

\* what Indicators.computeAll hands the static Strategy: the side of the
\* EMA trend, of the breakout, of the MACD cross, the RSI band and the
\* volume spike
Snapshot(trend, breakout, cross, rsi, volumeSpike) ==
  [trend |-> trend, breakout |-> breakout, cross |-> cross, rsi |-> rsi,
   volumeSpike |-> volumeSpike]

\* a quiet market, a full long and a full short setup, a high-volume
\* candle that breaks down while the EMAs still point up, and a bare MACD
\* cross of either side
Snapshots ==
  {Snapshot("flat", "none", "none", "mid", FALSE),
   Snapshot("up", "bullish", "bullish", "mid", TRUE),
   Snapshot("down", "bearish", "bearish", "mid", TRUE),
   Snapshot("up", "bearish", "none", "mid", TRUE),
   Snapshot("flat", "none", "bearish", "mid", FALSE),
   Snapshot("flat", "none", "bullish", "mid", FALSE)}

count(conds) == Cardinality({i \in DOMAIN conds : conds[i]})

\* checkLongEntry: uptrend, bullish breakout, bullish MACD cross, RSI not
\* overbought, volume spike
longConditions(ind) ==
  <<ind.trend = "up", ind.breakout = "bullish", ind.cross = "bullish",
    ind.rsi # "overbought", ind.volumeSpike>>

\* checkShortEntry: downtrend, bearish breakdown, bearish MACD cross, RSI
\* not oversold, volume spike
shortConditions(ind) ==
  <<ind.trend = "down", ind.breakout = "bearish", ind.cross = "bearish",
    ind.rsi # "oversold", ind.volumeSpike>>

\* Strategy.checkLongEntry: the conditions met
longReasons(ind) == count(longConditions(ind))

\* Strategy.checkShortEntry: the conditions met
shortReasons(ind) == count(shortConditions(ind))

\* shouldExitOnIndicator: a MACD cross against the position
shouldExitOnIndicator(side, cross) ==
  \/ side = "LONG" /\ cross = "bearish"
  \/ side = "SHORT" /\ cross = "bullish"

\* the arrays getKlines hands the BOS bot: none (a failed request), a few
\* candles, or a full window
FetchKeys4H ==
  {i \in 1..Len(KeySeq4H) :
     KeySeq4H[i].n \in {0, ShortLen, minCandlesFloor4H}}

FetchKeys5M ==
  {i \in 1..Len(KeySeq5M) : KeySeq5M[i].n \in {0, ShortLen, minCandles5M}}

\* tick of bot.js: the higher array is too short.  With ema200 unset,
\* minCandles4H is NaN and the comparison is false for every array.
insufficient4H(k4, cfg) ==
  /\ cfg # 0
  /\ Len(Candles4H[k4]) < Max2(cfg + emaMargin, minCandlesFloor4H)

insufficient5M(k5) == Len(Candles5M[k5]) < minCandles5M

\* tick of bot.js: the current price of an empty higher array is read
\* from undefined
priceLogThrows(k4) == Len(Candles4H[k4]) = 0

\* new TradingBot() and new RiskManager(config), before start().
\* variant is the bot ("bos" for bot.js, "single" for the bot before it),
\* positionId tells whether the exchange client's position records carry a
\* positionId, stale whether lastResetDate is a day before today.
TradingBot(variant, cfg, minReasons, positionId) ==
  [variant |-> variant, cfg |-> cfg, minReasons |-> minReasons,
   positionId |-> positionId,
   isRunning |-> FALSE, loop |-> "new", tick |-> "none", overlap |-> FALSE,
   k4 |-> 0, k5 |-> 0, long |-> FALSE, short |-> FALSE, cross |-> "none",
   side |-> "NONE", order |-> None,
   currentPosition |-> None,
   tradesExecutedToday |-> 0, stale |-> FALSE,
   positions |-> {}, botOpened |-> {},
   needsReset |-> FALSE, caught |-> FALSE, event |-> "new"]

Bots ==
  {TradingBot("bos", cfg, 0, pid) : cfg \in EmaPeriods, pid \in BOOLEAN}
    \cup {TradingBot("single", 0, m, FALSE) : m \in MinReasons}

InBot == bot # NoBot

InitBot ==
  /\ state = constructorState
  /\ result = NoResult
  /\ call = "new"
  /\ last = NoInput
  /\ bot \in Bots

\* RiskManager.checkAndResetDailyCounter
checkAndResetDailyCounter(b) ==
  IF b.stale THEN [b EXCEPT !.tradesExecutedToday = 0, !.stale = FALSE]
  ELSE b

\* RiskManager.canTradeToday, after its checkAndResetDailyCounter
canTradeToday(b) == b.tradesExecutedToday < maxTradesPerDay

\* RiskManager.recordTrade
recordTrade(b) ==
  [b EXCEPT !.tradesExecutedToday = b.tradesExecutedToday + 1]

\* the locals of a tick are gone with it
tickOver(b) ==
  [b EXCEPT !.tick = "none", !.k4 = 0, !.k5 = 0, !.long = FALSE,
            !.short = FALSE,
            !.cross = "none", !.side = "NONE", !.order = None]

\* tick() has returned: the await of runLoop resumes and the loop sleeps
tickReturns(b, event) ==
  [tickOver(b) EXCEPT
     !.event = event, !.loop = IF b.loop = "tick" THEN "sleep" ELSE b.loop]

\* runLoop without its try/catch: the rejected tick ends the loop
runLoopNoCatch(b) ==
  [tickOver(b) EXCEPT !.event = "threw", !.caught = TRUE, !.loop = "ended"]

\* runLoop: tick() has thrown; the catch logs the error and the loop goes
\* on to its sleep
runLoopCatch(b) ==
  [tickOver(b) EXCEPT
     !.event = "threw", !.caught = TRUE,
     !.loop = IF b.loop = "tick" THEN "sleep" ELSE b.loop]

\* runLoop calling tick() without awaiting it
runLoopNoAwait(b) == [b EXCEPT !.loop = "sleep"]

\* runLoop: await this.tick()
runLoopAwait(b) == [b EXCEPT !.loop = "tick"]

\* tick from its daily-limit check to its first await: with the limit
\* reached it returns at once, else it asks for the candles
tickFetches(b) ==
  IF ~canTradeToday(b) THEN [b EXCEPT !.event = "skip", !.loop = "sleep"]
  ELSE [runLoopAwait(b) EXCEPT
          !.tick = IF b.variant = "bos" THEN "klines4H" ELSE "klines",
          !.overlap = b.tick # "none",
          !.event = "fetch"]

\* tick up to its first await; outside the trading hours it returns before
\* the daily counter is looked at
tickBegins(b, withinHours) ==
  IF ~withinHours THEN [b EXCEPT !.event = "skip", !.loop = "sleep"]
  ELSE tickFetches(checkAndResetDailyCounter(b))

\* one pass of while (this.isRunning)
runLoopPass(b, withinHours) ==
  IF ~b.isRunning THEN [b EXCEPT !.loop = "ended", !.event = "ended"]
  ELSE tickBegins(b, withinHours)

\* enterPosition(type, indicators) up to its await of getBalance
enterPosition(b, type) ==
  [b EXCEPT !.tick = "balance", !.side = type, !.order = None,
            !.event = "enter"]

\* checkEntrySignals: the long signal is looked at first, and the short
\* signal after it whatever the long entry did
checkEntrySignals(b) ==
  IF b.long THEN enterPosition(b, "LONG")
  ELSE IF b.short THEN enterPosition(b, "SHORT")
  ELSE tickReturns(b, "noSignal")

\* checkEntrySignals after an enterPosition call has returned
afterEnter(b, event) ==
  IF b.side = "LONG" /\ b.short THEN enterPosition(b, "SHORT")
  ELSE tickReturns(b, event)

\* closePosition up to its await: the BOS bot asks for the position's
\* positionId first and returns without it
closePosition(b) ==
  IF b.variant = "bos" /\ ~b.positionId THEN tickReturns(b, "closeSkipped")
  ELSE [b EXCEPT !.tick = "close", !.event = "closeRequested"]

\* tick with an open position: close on the exit signal or on the opposite
\* entry signal (config.position.closeOnOppositeSignal), else hold
managePosition(b, side) ==
  IF shouldExitOnIndicator(side, b.cross) THEN closePosition(b)
  ELSE IF (IF side = "LONG" THEN b.short ELSE b.long) THEN closePosition(b)
  ELSE tickReturns(b, "hold")

\* tick after getPositions has set currentPosition
afterPositions(b) ==
  IF ~IsNull(b.currentPosition) /\ Val(b.currentPosition).size # 0
    THEN managePosition(b, Val(b.currentPosition).side)
  ELSE IF ~IsNull(b.currentPosition) THEN tickReturns(b, "waiting")
  ELSE checkEntrySignals(b)

\* what getPositions can answer: nothing on a failed request, else the
\* account's first position, or a closed-out record of size 0
PositionReports(b) ==
  {None}
    \cup {Some([side |-> s, size |-> 1]) : s \in b.positions}
    \cup (IF b.positions = {} THEN {Some([side |-> "LONG", size |-> 0])}
          ELSE {})

\* the analysis a tick goes on with: the two signals and the MACD cross
analysed(b, long, short, cross) ==
  [b EXCEPT !.tick = "positions", !.long = long, !.short = short,
            !.cross = cross, !.event = "analyzed"]

\* the `indicators` the bot takes out of the analysis: analyze() of the
\* BOS strategy returns indicators4H and indicators5M and no `indicators`
hasIndicators(b) == b.variant # "bos"

\* the market order enterPosition submits: the single-timeframe bot
\* computes its stops from ATR and the swing points
Order(b) ==
  Some([side |-> b.side, stopLoss |-> "atr", takeProfit |-> "atr"])

\* enterPosition after getBalance: a low balance returns; reading
\* indicators.entryPrice of an undefined `indicators` throws into the
\* catch of enterPosition; validateTrade or hasSufficientBalance may
\* reject the trade; else the order is submitted
afterBalance(b, balance, riskOk) ==
  IF balance < minBalance THEN afterEnter(b, "lowBalance")
  ELSE IF ~hasIndicators(b) THEN afterEnter(b, "enterError")
  ELSE IF ~riskOk THEN afterEnter(b, "rejected")
  ELSE [b EXCEPT !.tick = "order", !.order = Order(b),
                 !.event = "orderSubmitted"]

\* the exchange has filled the order
filled(b) ==
  [b EXCEPT !.positions = b.positions \cup {b.side},
            !.botOpened = b.botOpened \cup {b.side}]

\* enterPosition after placeOrder
afterOrder(b, success) ==
  IF success THEN afterEnter(recordTrade(filled(b)), "orderPlaced")
  ELSE afterEnter(b, "orderFailed")

\* the position of side has been closed on the exchange.  needsReset
\* remembers that a position the BOS bot had seen open is closed and the
\* tracker has not been reset since.
closed(b, side) ==
  [b EXCEPT !.positions = b.positions \ {side},
            !.botOpened = b.botOpened \ {side},
            !.needsReset =
               \/ b.needsReset
               \/ /\ b.variant = "bos"
                  /\ b.currentPosition = Some([side |-> side, size |-> 1])]

\* closePosition after the close request: on success the BOS bot resets
\* its strategy, and either bot forgets the position
afterClose(b, success) ==
  IF success
    THEN tickReturns(
           [closed(b, Val(b.currentPosition).side) EXCEPT
              !.currentPosition = None, !.needsReset = FALSE],
           "closed")
  ELSE tickReturns(b, "closeFailed")

Running == InBot /\ bot.loop \notin {"new", "ended", "exited"}

Untouched == UNCHANGED <<state, result, call, last>>

\* bot.start(): isRunning is set and runLoop runs up to its first await
Start ==
  /\ InBot /\ bot.loop = "new"
  /\ \E withinHours \in BOOLEAN :
       bot' = runLoopPass([bot EXCEPT !.isRunning = TRUE], withinHours)
  /\ Untouched

\* the sleep of runLoop is over
Wake ==
  /\ Running /\ bot.loop = "sleep"
  /\ \E withinHours \in BOOLEAN : bot' = runLoopPass(bot, withinHours)
  /\ Untouched

\* BOS tick: getKlines of the higher timeframe has answered
Klines4H ==
  /\ Running /\ bot.tick = "klines4H"
  /\ \E k4 \in FetchKeys4H :
       bot' = [bot EXCEPT !.tick = "klines5M", !.k4 = k4]
  /\ Untouched

\* BOS tick: getKlines of the lower timeframe has answered; the tick
\* returns on too few candles, throws on an empty higher array, and else
\* calls analyze() and asks for the positions
Klines5M ==
  /\ Running /\ bot.tick = "klines5M"
  /\ \E k5 \in FetchKeys5M, cross \in {"none", "bullish", "bearish"} :
       IF insufficient4H(bot.k4, bot.cfg) \/ insufficient5M(k5)
         THEN /\ bot' = tickReturns(bot, "insufficient")
              /\ UNCHANGED <<state, result>>
       ELSE IF priceLogThrows(bot.k4)
         THEN /\ bot' = runLoopCatch(bot)
              /\ UNCHANGED <<state, result>>
       ELSE /\ Outcome(analyze(state, bot.k4, k5, bot.cfg))
            /\ bot' = IF result'.threw THEN runLoopCatch(bot)
                      ELSE analysed([bot EXCEPT !.k5 = k5],
                                    result'.longSignal.signal,
                                    result'.shortSignal.signal, cross)
  /\ UNCHANGED <<call, last>>

\* single-timeframe tick: getKlines has answered; the tick returns on too
\* few candles and else runs Strategy.analyze and asks for the positions
Klines ==
  /\ Running /\ bot.tick = "klines"
  /\ \/ bot' = tickReturns(bot, "insufficient")
     \/ \E ind \in Snapshots :
          bot' = analysed(bot, longReasons(ind) >= bot.minReasons,
                          shortReasons(ind) >= bot.minReasons, ind.cross)
  /\ Untouched

\* getPositions has answered
Positions ==
  /\ Running /\ bot.tick = "positions"
  /\ \E report \in PositionReports(bot) :
       bot' = afterPositions([bot EXCEPT !.currentPosition = report])
  /\ Untouched

\* getBalance has answered
Balance ==
  /\ Running /\ bot.tick = "balance"
  /\ \E balance \in {minBalance - 1, minBalance}, riskOk \in BOOLEAN :
       bot' = afterBalance(bot, balance, riskOk)
  /\ Untouched

\* placeOrder has answered
OrderDone ==
  /\ Running /\ bot.tick = "order"
  /\ \E success \in BOOLEAN : bot' = afterOrder(bot, success)
  /\ Untouched

\* the close request has answered
CloseDone ==
  /\ Running /\ bot.tick = "close"
  /\ \E success \in BOOLEAN :
       /\ bot' = afterClose(bot, success)
       /\ state' = IF success /\ bot.variant = "bos" THEN resetState(state)
                   ELSE state
  /\ UNCHANGED <<result, call, last>>

\* SIGINT / SIGTERM: bot.stop() and process.exit(0) in one handler; what
\* the tick had still to do is never run
Signal ==
  /\ Running
  /\ bot' = [bot EXCEPT !.isRunning = FALSE, !.loop = "exited",
                        !.event = "exit"]
  /\ Untouched

\* the exchange closes a position (its stop or target is hit, or the
\* account's owner closes it)
ExchangeClose ==
  /\ Running
  /\ \E side \in bot.positions : bot' = closed(bot, side)
  /\ Untouched

\* the account's owner opens a position by hand
ExchangeOpen ==
  /\ Running /\ bot.positions = {}
  /\ \E side \in Sides : bot' = [bot EXCEPT !.positions = {side}]
  /\ Untouched

\* midnight passes
NextDay ==
  /\ Running /\ ~bot.stale
  /\ bot' = [bot EXCEPT !.stale = TRUE]
  /\ Untouched

NextBot ==
  \/ Start \/ Wake \/ Klines4H \/ Klines5M \/ Klines \/ Positions
  \/ Balance \/ OrderDone \/ CloseDone \/ Signal
  \/ ExchangeClose \/ ExchangeOpen \/ NextDay

SpecBot == InitBot /\ [][NextBot]_vars


----------------------------------------------------------------------------
(* Properties of the bot *)

\* the step is the BOS bot's enterPosition going on from its getBalance
BalanceStep ==
  /\ InBot /\ bot.variant = "bos"
  /\ bot.tick = "balance" /\ bot' # bot
  /\ bot'.event \notin {"exit"}
  /\ bot'.positions = bot.positions /\ bot'.stale = bot.stale

\* C13: when analyze() has returned a true signal, the exchange reports
\* no open position, the daily limit is not reached and the balance and
\* risk checks pass, the tick reaches placeOrder and submits the order
\* with the stop loss and the take profit the tracker proposed.
C13_SignalPlacesOrder ==
  [][(BalanceStep /\ bot'.event \notin {"lowBalance", "rejected"}) =>
       /\ bot'.tick = "order"
       /\ bot'.order = Some([side |-> bot.side,
                             stopLoss |-> state.stopLoss,
                             takeProfit |-> state.takeProfit])]_vars


\* C14: after a position that was open has been closed, by the bot's own
\* close request or on the exchange side, the bot calls resetState()
\* before it acts on any further entry signal: it never enters
\* enterPosition with a closed position still unanswered by a reset.
C14_ResetBeforeEntry ==
  (InBot /\ bot.variant = "bos" /\ bot.tick = "balance") => ~bot.needsReset


\* C15: ticks run strictly sequentially: runLoop awaits a tick before it
\* sleeps and starts the next one, so no tick (and no analyze() call)
\* begins while another tick is still in flight.
C15_TicksSequential ==
  InBot => /\ ~bot.overlap
           /\ (bot.tick # "none" => bot.loop \in {"tick", "exited"})

\* a later tick is in flight: the tracker has already been through the
\* analyze() call of an earlier tick
C15_Witness ==
  /\ InBot /\ bot.variant = "bos" /\ bot.tick = "klines5M"
  /\ bot.loop = "tick" /\ state.trend4H # "NONE"


\* C16: a shutdown signal only stops the scheduling of further ticks: a
\* tick that is in progress when the signal arrives is not aborted but
\* runs to completion, so the process is never gone with a tick left
\* unfinished.
C16_ShutdownLetsTickFinish ==
  (InBot /\ bot.loop = "exited") => bot.tick = "none"


\* the step is a tick throwing
ThrowStep == InBot /\ bot.tick # "none" /\ bot'.event = "threw"

\* the step is the loop going on from its sleep after a caught error
ResumeStep ==
  /\ InBot /\ bot.caught /\ bot.loop = "sleep"
  /\ bot'.loop # "exited" /\ bot'.event # bot.event

\* C17: log and continue: an error thrown by a tick is caught by runLoop,
\* which goes on to its sleep, and while the bot is running the sleep is
\* followed by the next tick; a failed tick never ends the loop.
C17_LogAndContinue ==
  [][/\ ThrowStep => (bot'.loop = "sleep" /\ bot'.tick = "none")
     /\ ResumeStep => bot'.event \in {"fetch", "skip"}
     /\ (InBot /\ bot'.loop = "ended") => ~bot.isRunning]_vars

\* the tick after a failed one is in flight
C17_Witness ==
  InBot /\ bot.caught /\ bot.isRunning /\ bot.loop = "tick"
    /\ bot.tick = "klines4H"


\* C18: the daily trade limit is respected: the number of trades recorded
\* for the day (tradesExecutedToday) never exceeds
\* config.risk.maxTradesPerDay.
C18_DailyLimit == InBot => bot.tradesExecutedToday <= maxTradesPerDay


\* C19: one position at a time (config.position.oneTradeAtATime): the bot
\* never submits an entry order while a position opened by an earlier
\* entry order of its own is still open.
C19_OnePositionAtATime ==
  (InBot /\ bot.tick = "order") => bot.botOpened = {}


\* the step is a tick going on from its getPositions
PositionsStep ==
  /\ InBot /\ bot.tick = "positions"
  /\ bot'.tick # "positions" /\ bot'.event # "exit"

\* the tick holds an open position of side and has a reason to close it
MustClose(b, side) ==
  \/ shouldExitOnIndicator(side, b.cross)
  \/ (IF side = "LONG" THEN b.short ELSE b.long)

\* C20: when a position is open and shouldExitOnIndicator reports an exit,
\* or (config.position.closeOnOppositeSignal) the opposite entry signal is
\* true, the tick sends a close request to the exchange client.
C20_ExitSendsClose ==
  [][(/\ PositionsStep
      /\ ~IsNull(bot'.currentPosition)
      /\ Val(bot'.currentPosition).size # 0
      /\ MustClose(bot, Val(bot'.currentPosition).side))
        => bot'.event = "closeRequested"]_vars


----------------------------------------------------------------------------
(* Trend/breakout entry rules: checkLongEntry and checkShortEntry of       *)
(* TrendBreakoutStrategy and of the two Strategy classes, applied to one   *)
(* indicator snapshot.                                                     *)

\* every snapshot of the five condition inputs
AllSnapshots ==
  {Snapshot(trend, breakout, cross, rsi, volumeSpike) :
     trend \in {"up", "down", "flat"},
     breakout \in {"none", "bullish", "bearish"},
     cross \in {"none", "bullish", "bearish"},
     rsi \in {"oversold", "mid", "overbought"},
     volumeSpike \in BOOLEAN}

conditionNames == <<"trend", "breakout", "macd", "rsi", "volume">>

IsMet(r) == r.ok

IsUnmet(r) == ~r.ok

\* BaseStrategy.checkConditions: allReasons, the conditions met and then
\* the failures
allReasons(conds) ==
  SelectSeq([i \in 1..conditionCount |->
               [ok |-> conds[i], check |-> conditionNames[i]]], IsMet)
    \o SelectSeq([i \in 1..conditionCount |->
                    [ok |-> conds[i], check |-> conditionNames[i]]], IsUnmet)

\* checkLongEntry / checkShortEntry of a class that asks for minReasons of
\* the conditions
entrySignal(conds, type, minReasons) ==
  createSignalResponse(count(conds) >= minReasons, type, allReasons(conds))

\* one checkLongEntry and checkShortEntry pair on a snapshot
CheckEntry ==
  /\ \E ind \in AllSnapshots, minReasons \in MinReasons :
       /\ result' = [threw |-> FALSE,
                     longSignal |->
                       entrySignal(longConditions(ind), "LONG", minReasons),
                     shortSignal |->
                       entrySignal(shortConditions(ind), "SHORT", minReasons)]
       /\ last' = [ind |-> ind, minReasons |-> minReasons]
  /\ call' = "check"
  /\ UNCHANGED <<state, bot>>

NextEntry == CheckEntry

SpecEntry == Init /\ [][NextEntry]_vars

\* C21: the trend/breakout strategy emits a LONG (SHORT) entry signal
\* only when all five entry conditions are met: trend, breakout or
\* breakdown, MACD cross, RSI bound and volume confirmation.
C21_SignalNeedsAllFive ==
  call = "check" =>
    /\ result.longSignal.signal =>
         \A i \in 1..conditionCount : longConditions(last.ind)[i]
    /\ result.shortSignal.signal =>
         \A i \in 1..conditionCount : shortConditions(last.ind)[i]


----------------------------------------------------------------------------
(* A caller of analyze() that passes full-length arrays, the higher one   *)
(* possibly ending in a break right after a wick; the arguments of the     *)
(* latest call are kept in last.                                           *)

WickInputs ==
  {[k4 |-> k4, k5 |-> k5, cfg |-> cfg] :
     k4 \in {i \in 1..Len(KeySeq4H) : KeySeq4H[i].n = LongLen4H},
     k5 \in {i \in 1..Len(KeySeq5M) : KeySeq5M[i].n = LongLen5M},
     cfg \in EmaPeriods}

AnalyzeWick ==
  \E in \in WickInputs :
    /\ AnalyzeCall(in)
    /\ call' = "analyze"
    /\ last' = in
    /\ UNCHANGED bot

NextWick == AnalyzeWick \/ Reset

SpecWick == Init /\ [][NextWick]_vars

\* the level the last lookback + 2 candles without their final two give:
\* their highest high for a BULLISH break, their lowest low for a BEARISH
windowLevel(candles, lookback, type) ==
  IF type = "BULLISH"
    THEN Scale * MaxOf({c.high :
                          c \in {candles[k] : k \in
                                   (Len(candles) - lookback - 1)..
                                     (Len(candles) - 2)}})
  ELSE Scale * MinOf({c.low :
                        c \in {candles[k] : k \in
                                 (Len(candles) - lookback - 1)..
                                   (Len(candles) - 2)}})

\* C22: break detection on either timeframe takes its break level over a
\* structure window made of the last L+2 candles minus the final two:
\* neither the current nor the previous candle contributes to the highest
\* high (BULLISH) or lowest low (BEARISH) the close is compared against.
C22_WindowExcludesLastTwo ==
  [][(call' = "analyze" /\ ~result'.threw) =>
       /\ (~IsNull(state'.bos4H) /\ state'.bos4H # state.bos4H) =>
            Val(state'.bos4H).breakLevel =
              windowLevel(Candles4H[last'.k4], lookback4H,
                          Val(state'.bos4H).type)
       /\ (~IsNull(state'.bos5M) /\ state'.bos5M # state.bos5M) =>
            Val(state'.bos5M).breakLevel =
              windowLevel(Candles5M[last'.k5], lookback5M,
                          Val(state'.bos5M).type)]_vars


\* the current higher close of the call in stays beyond the level of the
\* break b, on the break's side, in a full-length array
StaysExtended(in, b) ==
  /\ ~short4H(in)
  /\ IF Val(b).type = "BULLISH"
       THEN currentPrice4H(in) * Scale > Val(b).breakLevel
     ELSE currentPrice4H(in) * Scale < Val(b).breakLevel

\* C23: a break that occurred on an earlier tick is not re-flagged as new:
\* once higherBreak is held, a later analyze() call in which the trend is
\* the same and the price merely stays extended beyond the original
\* breakLevel leaves higherBreak (breakLevel, impulse, timestamp) and the
\* derived retracementZone unchanged.
C23_BreakNotReflagged ==
  [][(/\ call' = "analyze" /\ ~result'.threw
      /\ Detected(state.bos4H)
      /\ state'.trend4H = Val(state.bos4H).type
      /\ StaysExtended(last', state.bos4H))
        => /\ state'.bos4H = state.bos4H
           /\ state'.retracementZone4H = state.retracementZone4H]_vars


\* C24: whenever the tracker holds a proposal and emits a signal, the
\* levels are ordered in the trade's favourable direction: a true
\* longSignal has stopLoss < entryPrice < takeProfit, and a true
\* shortSignal has takeProfit < entryPrice < stopLoss.
C24_LevelsOrdered ==
  AfterAnalyze =>
    /\ result.longSignal.signal =>
         /\ Val(state.stopLoss) < Val(state.entryPrice)
         /\ Val(state.entryPrice) < Val(state.takeProfit)
    /\ result.shortSignal.signal =>
         /\ Val(state.takeProfit) < Val(state.entryPrice)
         /\ Val(state.entryPrice) < Val(state.stopLoss)


\* C25: every stored retracement zone has its low bound strictly below its
\* high bound, for BULLISH and for BEARISH breaks alike.
C25_ZoneLowBelowHigh ==
  ~IsNull(state.retracementZone4H) =>
    Val(state.retracementZone4H).low < Val(state.retracementZone4H).high

\* a zone computed from a BEARISH break is stored
C25_Witness ==
  /\ AfterAnalyze
  /\ ~IsNull(state.retracementZone4H)
  /\ Val(state.retracementZone4H).type = "BEARISH"
  /\ Detected(state.bos4H)
  /\ Val(state.bos4H).type = "BEARISH"


\* C26: whenever the tracker holds both a higher-timeframe break and a
\* lower-timeframe break, the two have the same direction.
C26_BreaksSameDirection ==
  (~IsNull(state.bos4H) /\ ~IsNull(state.bos5M)) =>
    Val(state.bos5M).type = Val(state.bos4H).type


\* The indicators.bos section of the configuration file: the documented
\* values, and a configuration that changes every one of them.
BosConfigs ==
  {[lookback4H |-> lookback4H - d,
    lookback5M |-> lookback5M - d,
    fibRetracementLow |-> fib50Num - 100 * d,
    fibRetracementHigh |-> fib618Num + 100 * d,
    riskRewardRatio |-> riskReward + d] : d \in {0, 1}}

\* One analyze() call with a configuration carrying a bos section.  analyze
\* reads the configuration only through computeIndicators, which takes
\* indicators.ema200 from it; the bos section reaches no statement.
AnalyzeConfigured ==
  \E in \in Inputs, bos \in BosConfigs :
    /\ AnalyzeCall(in)
    /\ call' = "configured"
    /\ last' = [bos |-> bos]
    /\ UNCHANGED bot

NextConfigured == AnalyzeConfigured \/ Reset

SpecConfigured == Init /\ [][NextConfigured]_vars

\* the retracement zone of a break under configured Fibonacci ratios
configuredZone(b, bos) ==
  LET dLow == (b.impulse.size * bos.fibRetracementLow) \div Scale
      dHigh == (b.impulse.size * bos.fibRetracementHigh) \div Scale
  IN IF b.type = "BULLISH"
       THEN [low |-> b.impulse.end - dHigh, high |-> b.impulse.end - dLow,
             type |-> b.type]
       ELSE [low |-> b.impulse.end + dLow, high |-> b.impulse.end + dHigh,
             type |-> b.type]

\* C27: the break-of-structure parameters are taken from the configuration
\* passed to analyze(): the zone a call stores uses the configured Fibonacci
\* ratios, and a proposal a call makes puts the take-profit at the
\* configured risk/reward multiple of the stop distance.
C27_ParametersFromConfig ==
  [][(call' = "configured" /\ ~result'.threw) =>
       /\ Detected(state'.bos4H) =>
            state'.retracementZone4H =
              Some(configuredZone(Val(state'.bos4H), last'.bos))
       /\ (~state.entryProposed /\ state'.entryProposed) =>
            LET entry == Val(state'.entryPrice)
                sl == Val(state'.stopLoss)
                tp == Val(state'.takeProfit)
            IN tp - entry = (entry - sl) * last'.bos.riskRewardRatio]_vars


\* the documented Fibonacci ratios, as a bos configuration section
documentedRatios ==
  [fibRetracementLow |-> fib50Num, fibRetracementHigh |-> fib618Num]

\* C28: after every analyze() call that ends with a detected higher break
\* held, the stored retracement zone is the zone of that break: its type is
\* the break's type and its bounds are the 50% and 61.8% retracements of
\* the break's impulse.
C28_ZoneOfHeldBreak ==
  (AfterAnalyze /\ Detected(state.bos4H)) =>
    state.retracementZone4H =
      Some(configuredZone(Val(state.bos4H), documentedRatios))

\* a call has replaced the held break by one of the other direction: the
\* higher break is BEARISH while the lower break kept from before is BULLISH
C28_Witness ==
  /\ AfterAnalyze
  /\ Detected(state.bos4H)
  /\ Val(state.bos4H).type = "BEARISH"
  /\ ~IsNull(state.bos5M)
  /\ Val(state.bos5M).type = "BULLISH"
  /\ ~IsNull(state.retracementZone4H)


\* C29: the long signal and the short signal are never both true in the
\* result of one analyze() call.
C29_SignalsExclusive ==
  AfterAnalyze => ~(result.longSignal.signal /\ result.shortSignal.signal)

\* a call returns a true short signal next to a false long signal
C29_Witness ==
  /\ AfterAnalyze
  /\ result.shortSignal.signal
  /\ ~result.longSignal.signal
  /\ state.trend4H = "BEARISH"


\* the minimum the tick asks of the higher array, max(ema200 + 10, 60),
\* an unset ema200 adding nothing to it
tooFew4H(k4, cfg) ==
  Len(Candles4H[k4]) < Max2(cfg + emaMargin, minCandlesFloor4H)

tooFew5M(k5) == Len(Candles5M[k5]) < minCandles5M

\* the step in which the BOS tick goes on from its two candle fetches
FetchedStep ==
  /\ InBot /\ bot.variant = "bos"
  /\ bot.tick = "klines5M" /\ bot'.tick # "klines5M"

\* C30: when a candle fetch fails or returns fewer candles than the bot's
\* minimum (higher array shorter than max(ema200 + 10, 60), lower array
\* shorter than 30), the tick ends before analyze() is called: the tracker
\* state is unchanged and the tick makes no position query and no order.
\* A tick that goes on to its position query has fetched enough of both.
C30_ShortFetchEndsTick ==
  [][FetchedStep =>
       /\ tooFew4H(bot.k4, bot.cfg) =>
            (state' = state /\ bot'.tick = "none" /\ IsNull(bot'.order))
       /\ bot'.tick # "none" => ~tooFew5M(bot'.k5)
       /\ bot'.tick = "none" => state' = state]_vars

====
